---------------------------- MODULE Spec2Model ----------------------------
(***************************************************************************)
(* Model of the scan pipeline of src/app.js (the canonical variant, lines  *)
(* 386-843): the fail-soft data client, the two caches, calculateRSI and   *)
(* updateData with its worker pool over a shared cursor.                   *)
(*                                                                         *)
(* JavaScript runs one task at a time and a task runs until its next       *)
(* await.  Every action below is one such run: the code from the           *)
(* resumption of an await up to the next suspension.  Prices, volumes and  *)
(* rates are integers; calculateRSI is computed over exact rationals       *)
(* <<numerator, denominator>> (binary floating point rounding is not       *)
(* modelled).  Time is in milliseconds, as Date.now().                     *)
(***************************************************************************)
EXTENDS Integers, Sequences, FiniteSets, TLC

\* ------------------------------------------------------------------ bounds
NumSymbols == 3
MaxConcurrency == 2
MaxCloses == 7
MaxClose == 3
MaxFeed == 4
MaxSymbols == 11
MaxHeld == 2

\* ------------------------------------------------------- program constants
minVolume == 0
rsiLimit == 35
cacheTTL == 60000
rankCacheTTL == 3600000
ConfigConcurrency == 40
RsiPeriod == 6
StageAThreshold == 90
StageBThreshold == 80
ProgressEvery == 10
DefaultFundingInterval == 8

\* ----------------------------------------------------------------- helpers
\* The configured size, whatever the number of candidates.
MinFirst(a, b) == a

Min(a, b) == IF a <= b THEN a ELSE b

Abs(x) == IF x < 0 THEN 0 - x ELSE x

RECURSIVE GCD(_, _)
GCD(a, b) == IF b = 0 THEN a ELSE GCD(b, a % b)

Range(s) == {s[i] : i \in 1..Len(s)}

\* Exact rationals <<n, d>>, d > 0, in lowest terms.
Rat(n, d) ==
    LET s == IF d < 0 THEN 0 - 1 ELSE 1
        g == GCD(Abs(n), Abs(d))
    IN  <<(s * n) \div g, (s * d) \div g>>

RatInt(k) == <<k, 1>>

RatAdd(x, y) == Rat(x[1] * y[2] + y[1] * x[2], x[2] * y[2])

RatSub(x, y) == Rat(x[1] * y[2] - y[1] * x[2], x[2] * y[2])

RatMul(x, y) == Rat(x[1] * y[1], x[2] * y[2])

RatDiv(x, y) == Rat(x[1] * y[2], x[2] * y[1])

RatLt(x, y) == x[1] * y[2] < y[1] * x[2]

RatLe(x, y) == x[1] * y[2] <= y[1] * x[2]

\* ------------------------------------------------------------ calculateRSI
\* The first loop: gains and losses over the differences 1..period.
RECURSIVE InitialSums(_, _, _)
InitialSums(closes, i, acc) ==
    IF i = 0 THEN acc
    ELSE LET prev == InitialSums(closes, i - 1, acc)
             diff == closes[i + 1] - closes[i]
         IN  IF diff >= 0
             THEN [gains |-> prev.gains + diff, losses |-> prev.losses]
             ELSE [gains |-> prev.gains, losses |-> prev.losses + Abs(diff)]

\* The second loop: JS indices period+1 .. length-1, smoothing both averages.
RECURSIVE Smooth(_, _, _, _)
Smooth(closes, period, i, avg) ==
    IF i >= Len(closes) THEN avg
    ELSE LET diff == closes[i + 1] - closes[i]
             currentGain == IF diff > 0 THEN diff ELSE 0
             currentLoss == IF diff < 0 THEN Abs(diff) ELSE 0
             p == RatInt(period)
             p1 == RatInt(period - 1)
         IN  Smooth(closes, period, i + 1,
                    [avgGain |-> RatDiv(RatAdd(RatMul(avg.avgGain, p1), RatInt(currentGain)), p),
                     avgLoss |-> RatDiv(RatAdd(RatMul(avg.avgLoss, p1), RatInt(currentLoss)), p)])

\* Too few closes read as the strongest signal.
calculateRSIShortFull(closes, period) ==
    IF Len(closes) < period + 1 THEN RatInt(100)
    ELSE LET sums == InitialSums(closes, period, [gains |-> 0, losses |-> 0])
             avg == Smooth(closes, period, period + 1,
                           [avgGain |-> Rat(sums.gains, period),
                            avgLoss |-> Rat(sums.losses, period)])
         IN  IF avg.avgLoss = RatInt(0) THEN RatInt(100)
             ELSE LET rs == RatDiv(avg.avgGain, avg.avgLoss)
                  IN  RatSub(RatInt(100), RatDiv(RatInt(100), RatAdd(RatInt(1), rs)))

\* Too few closes read as the neutral value.
calculateRSINeutral(closes, period) ==
    IF Len(closes) < period + 1 THEN RatInt(50)
    ELSE LET sums == InitialSums(closes, period, [gains |-> 0, losses |-> 0])
             avg == Smooth(closes, period, period + 1,
                           [avgGain |-> Rat(sums.gains, period),
                            avgLoss |-> Rat(sums.losses, period)])
         IN  IF avg.avgLoss = RatInt(0) THEN RatInt(100)
             ELSE LET rs == RatDiv(avg.avgGain, avg.avgLoss)
                  IN  RatSub(RatInt(100), RatDiv(RatInt(100), RatAdd(RatInt(1), rs)))

\* No movement at all read as 0.
calculateRSIFlatZero(closes, period) ==
    IF Len(closes) < period + 1 THEN RatInt(0)
    ELSE LET sums == InitialSums(closes, period, [gains |-> 0, losses |-> 0])
             avg == Smooth(closes, period, period + 1,
                           [avgGain |-> Rat(sums.gains, period),
                            avgLoss |-> Rat(sums.losses, period)])
         IN  IF avg.avgLoss = RatInt(0)
             THEN (IF avg.avgGain = RatInt(0) THEN RatInt(0) ELSE RatInt(100))
             ELSE LET rs == RatDiv(avg.avgGain, avg.avgLoss)
                  IN  RatSub(RatInt(100), RatDiv(RatInt(100), RatAdd(RatInt(1), rs)))

\* 100 + 100 / (1 + rs): a slip of the sign.
calculateRSISignSlip(closes, period) ==
    IF Len(closes) < period + 1 THEN RatInt(0)
    ELSE LET sums == InitialSums(closes, period, [gains |-> 0, losses |-> 0])
             avg == Smooth(closes, period, period + 1,
                           [avgGain |-> Rat(sums.gains, period),
                            avgLoss |-> Rat(sums.losses, period)])
         IN  IF avg.avgLoss = RatInt(0) THEN RatInt(100)
             ELSE LET rs == RatDiv(avg.avgGain, avg.avgLoss)
                  IN  RatAdd(RatInt(100), RatDiv(RatInt(100), RatAdd(RatInt(1), rs)))

calculateRSI(closes, period) ==
    IF Len(closes) < period + 1 THEN RatInt(0)
    ELSE LET sums == InitialSums(closes, period, [gains |-> 0, losses |-> 0])
             avg == Smooth(closes, period, period + 1,
                           [avgGain |-> Rat(sums.gains, period),
                            avgLoss |-> Rat(sums.losses, period)])
         IN  IF avg.avgLoss = RatInt(0) THEN RatInt(100)
             ELSE LET rs == RatDiv(avg.avgGain, avg.avgLoss)
                  IN  RatSub(RatInt(100), RatDiv(RatInt(100), RatAdd(RatInt(1), rs)))


\* ------------------------------------------------------------- environment
Symbols == 1..NumSymbols

\* An optional value is <<>> (undefined, null, 'N/A') or <<v>>.
None == <<>>

Some(v) == <<v>>

\* A value that may or may not be an array: `{}`, the initial value of
\* CACHE.products.data, is an object with no length and no forEach.
EmptyObject == [isArray |-> FALSE, items |-> <<>>]

Array(items) == [isArray |-> TRUE, items |-> items]

\* A request that rejects, or whose body does not parse.
Failure == [ok |-> FALSE, body |-> <<>>]

Response(body) == [ok |-> TRUE, body |-> body]

\* A base asset is the sequence of the parts of its name, a leveraged prefix
\* first: <<"1000", "PEPE">> is 1000PEPE.
BaseOf(s) ==
    CASE s = 1 -> <<"BTC">>
      [] s = 2 -> <<"1000", "PEPE">>
      [] s = 3 -> <<"ETH">>
      [] OTHER -> <<"1000", "ALT">>

\* The exchangeInfo response: every symbol of the universe, plus one pair that
\* is not trading and one quoted in another currency.
ExchangeInfoResponse ==
    [i \in 1..(NumSymbols + 2) |->
        IF i <= NumSymbols
        THEN [symbol |-> i, baseAsset |-> BaseOf(i), quoteAsset |-> "USDT", status |-> "TRADING"]
        ELSE IF i = NumSymbols + 1
        THEN [symbol |-> 0, baseAsset |-> <<"OLD">>, quoteAsset |-> "USDT", status |-> "BREAK"]
        ELSE [symbol |-> 0 - 1, baseAsset |-> <<"BTC">>, quoteAsset |-> "BUSD", status |-> "TRADING"]]

\* Two 24h ticker responses: in the first, volume and change grow with the
\* symbol; in the second symbol 1 has no entry, volumes tie and change falls.
TickerResponses ==
    { [i \in 1..NumSymbols |->
          [symbol |-> i, lastPrice |-> 100 + i, quoteVolume |-> 10 * i, priceChangePercent |-> i]],
      [i \in 1..(NumSymbols - 1) |->
          [symbol |-> i + 1, lastPrice |-> 100, quoteVolume |-> 10 * (1 + ((i + 1) % 2)),
           priceChangePercent |-> 0 - i]] }

PremiumIndexResponse ==
    [i \in 1..NumSymbols |-> [symbol |-> i, lastFundingRate |-> i - 2]]

FundingInfoResponse ==
    [i \in 1..(NumSymbols - 1) |-> [symbol |-> i, fundingIntervalHours |-> 4]]

\* The product feed {b, q, c, cs}: base, quote, price, circulating supply.
ProductsResponse ==
    [success |-> TRUE,
     data |-> << [b |-> <<"ETH">>, q |-> "USDT", c |-> 20, cs |-> 10],
                 [b |-> <<"BTC">>, q |-> "USDT", c |-> 100, cs |-> 5],
                 [b |-> <<"BTC">>, q |-> "BUSD", c |-> 100, cs |-> 50],
                 [b |-> <<"PEPE">>, q |-> "USDT", c |-> 1, cs |-> 30],
                 [b |-> <<"ETH">>, q |-> "USDT", c |-> 1, cs |-> 1],
                 [b |-> <<"DEAD">>, q |-> "USDT", c |-> 0, cs |-> 10] >>]

ProductsRefused == [success |-> FALSE, data |-> <<>>]

\* The feed answers with success and an empty list.
ProductsEmpty == [success |-> TRUE, data |-> <<>>]

\* Candles [openTime, open, high, low, close, volume]; only the close differs.
Candle(c) == <<0, c, c, c, c, 0>>

Candles(closes) == [i \in 1..Len(closes) |-> Candle(closes[i])]

Exact90 == <<10, 11, 12, 13, 14, 19, 18, 18>>
Exact80 == <<10, 11, 12, 13, 14, 13, 13>>
Weak == <<10, 9, 10, 9, 10, 9, 10>>

\* What the klines endpoint may answer, per interval.
KlinesResponses(interval) ==
    IF interval = "1h" THEN {Candles(Exact90), Candles(Exact80)}
    ELSE {Candles(Exact80), Candles(Weak)}


\* A stable sort, highest key first: what Array.prototype.sort does with the
\* comparator (a, b) => key(b) - key(a); keys[i] is the key of seq[i].
SortDescBy(seq, keys) ==
    LET n == Len(seq)
        pos(i) == 1 + Cardinality({j \in 1..n :
                        \/ keys[j] > keys[i]
                        \/ (keys[j] = keys[i] /\ j < i)})
    IN  [p \in 1..n |-> seq[CHOOSE i \in 1..n : pos(i) = p]]

\* Array.prototype.filter.
RECURSIVE FilterSeq(_, _)
FilterSeq(seq, keep) ==
    IF seq = <<>> THEN <<>>
    ELSE IF Head(seq) \in keep
         THEN <<Head(seq)>> \o FilterSeq(Tail(seq), keep)
         ELSE FilterSeq(Tail(seq), keep)

\* ------------------------------------------------------------------- state
VARIABLES
    now,              \* Date.now()
    hasWakeLock,      \* 'wakeLock' in navigator
    wakeLock,         \* the global wakeLock: None or Some(sentinel)
    held,             \* the sentinels acquired and not yet released
    releasing,        \* the release() promises not yet settled, by sentinel
    loading,          \* ELEMENTS.refreshBtn.disabled (loading indicator shown)
    tableBody,        \* the rows of ELEMENTS.tableBody
    totalPairsText,   \* ELEMENTS.totalPairs.textContent
    alerts,           \* alert() calls of the current cycle
    cacheKlines,      \* CACHE.klines
    cacheProducts,    \* CACHE.products
    concurrency,      \* CONFIG.concurrency
    pc,               \* where updateData is suspended
    phases,           \* the phases the current cycle has entered
    productCall,      \* the pending fetchProductData call
    metaFailed,       \* the metadata fetches of the current cycle that failed
    stats, fundingMap, fundingIntervals, baseMap, rankMap,
    TARGET_SYMBOLS, index, completed, results,
    workers,          \* the worker() invocations
    claimed,          \* how often each position of TARGET_SYMBOLS was claimed
    kRequests,        \* klines requests issued in the current cycle
    stageA, stageB,   \* the verdict of each stage on each symbol
    thrown,           \* the symbols whose processSymbol call rejected
    failed,           \* the keys whose klines request failed in the current cycle
    market,           \* which fixed dataset a deterministic data client serves
    minVol,           \* CONFIG.minVolume
    stalled,          \* the key whose klines request never settles, if any
    sample,           \* the arguments of a direct calculateRSI call
    reading           \* what that call returned, once it has

cycleVars == <<stats, fundingMap, fundingIntervals, baseMap, rankMap,
               TARGET_SYMBOLS, index, completed, results, workers, claimed,
               kRequests, stageA, stageB, thrown, failed>>

envVars == <<now, hasWakeLock, concurrency, market, minVol, stalled, sample, reading>>

lockVars == <<wakeLock, held, releasing>>

uiVars == <<loading, tableBody, totalPairsText, alerts>>

vars == <<envVars, lockVars, uiVars, cacheKlines, cacheProducts, pc, phases,
          productCall, metaFailed, cycleVars>>

Intervals == {"1h", "4h"}

\* Every symbol an exchange may list, and every cache key.
Universe == 1..MaxSymbols

Keys == Universe \X Intervals

Workers == 1..MaxConcurrency

total == Len(TARGET_SYMBOLS)

IdleWorker ==
    [pc |-> "idle", currentIndex |-> 0, symbol |-> 0, hit |-> FALSE,
     data |-> <<>>, callNow |-> 0, rsi1h |-> None]

DoneWorker == [IdleWorker EXCEPT !.pc = "done"]


\* ------------------------------------------------------------- data client
\* fetchExchangeInfo: the USDT pairs that are trading, or the empty default.
fetchExchangeInfo(resp) ==
    IF ~resp.ok THEN [symbols |-> <<>>, baseMap |-> <<>>]
    ELSE LET data == resp.body
             active == {i \in 1..Len(data) :
                           data[i].quoteAsset = "USDT" /\ data[i].status = "TRADING"}
             activeSymbols == FilterSeq([i \in 1..Len(data) |-> i], active)
         IN  [symbols |-> [k \in 1..Len(activeSymbols) |-> data[activeSymbols[k]].symbol],
              baseMap |-> [s \in {data[i].symbol : i \in active} |->
                              data[CHOOSE i \in active :
                                      /\ data[i].symbol = s
                                      /\ \A j \in active : data[j].symbol = s => j <= i].baseAsset]]

\* fetch24hTicker: symbol -> {price, volume, priceChangePercent}, or {}.
fetch24hTicker(resp) ==
    IF ~resp.ok THEN <<>>
    ELSE LET data == resp.body
         IN  [s \in {data[i].symbol : i \in 1..Len(data)} |->
                 LET item == data[CHOOSE i \in 1..Len(data) :
                                     /\ data[i].symbol = s
                                     /\ \A j \in 1..Len(data) : data[j].symbol = s => j <= i]
                 IN  [price |-> item.lastPrice, volume |-> item.quoteVolume,
                      priceChangePercent |-> item.priceChangePercent]]

\* fetchFundingRates: symbol -> lastFundingRate, or {}.
fetchFundingRates(resp) ==
    IF ~resp.ok THEN <<>>
    ELSE LET data == resp.body
         IN  [s \in {data[i].symbol : i \in 1..Len(data)} |->
                 data[CHOOSE i \in 1..Len(data) :
                         /\ data[i].symbol = s
                         /\ \A j \in 1..Len(data) : data[j].symbol = s => j <= i].lastFundingRate]

\* fetchFundingIntervals: symbol -> fundingIntervalHours, or {}.
fetchFundingIntervals(resp) ==
    IF ~resp.ok THEN <<>>
    ELSE LET data == resp.body
         IN  [s \in {data[i].symbol : i \in 1..Len(data)} |->
                 data[CHOOSE i \in 1..Len(data) :
                         /\ data[i].symbol = s
                         /\ \A j \in 1..Len(data) : data[j].symbol = s => j <= i].fundingIntervalHours]

\* fetchProductData up to its await: whether the cached dataset is served.
ProductCacheValid(cache, t) ==
    /\ cache.data.isArray
    /\ Len(cache.data.items) > 0
    /\ t - cache.timestamp < rankCacheTTL

\* fetchProductData, the catch branch: CACHE.products.data || [].
ProductFallback(cache) == cache.data

\* fetchProductData after its await: the value returned and the cache left.
fetchProductDataSettle(call, cache, resp) ==
    IF call.hit THEN [value |-> cache.data, cache |-> cache]
    ELSE IF ~resp.ok THEN [value |-> ProductFallback(cache), cache |-> cache]
    ELSE IF resp.body.success
         THEN [value |-> Array(resp.body.data),
               cache |-> [data |-> Array(resp.body.data), timestamp |-> call.now]]
         ELSE [value |-> Array(<<>>), cache |-> cache]

\* A candle cache that is never read.
KlinesCacheNever(cache, key, t) == FALSE

\* An entry still served at the age of the TTL.
KlinesCacheValidAtTTL(cache, key, t) ==
    /\ cache[key] # None
    /\ t - cache[key][1].timestamp <= cacheTTL

\* fetchKlines up to its await: a cache entry younger than the TTL is served.
KlinesCacheValid(cache, key, t) ==
    /\ cache[key] # None
    /\ t - cache[key][1].timestamp < cacheTTL

\* data.map(candle => parseFloat(candle[4])).
ClosePrices(data) == [i \in 1..Len(data) |-> data[i][5]]

\* --------------------------------------------------------------- filtering
Volume(st, s) == IF s \in DOMAIN st THEN st[s].volume ELSE 0

Change(st, s) == IF s \in DOMAIN st THEN st[s].priceChangePercent ELSE 0


\* A filter that also drops the symbols whose volume equals the floor.
HighVolumeSymbolsStrict(symbols, st) ==
    FilterSeq(symbols, {s \in Range(symbols) : Volume(st, s) > minVol})

HighVolumeSymbols(symbols, st) ==
    FilterSeq(symbols, {s \in Range(symbols) : Volume(st, s) >= minVol})


\* The pre-sort turned round: lowest change first.
SortByChangeAscending(list, st) ==
    SortDescBy(list, [i \in 1..Len(list) |-> 0 - Change(st, list[i])])

SortByChange(list, st) ==
    SortDescBy(list, [i \in 1..Len(list) |-> Change(st, list[i])])

\* ------------------------------------------------------------ rank resolver
McapList(productList) ==
    LET eligible == {i \in 1..Len(productList) :
                        /\ productList[i].q = "USDT"
                        /\ productList[i].cs # 0
                        /\ productList[i].c > 0
                        /\ productList[i].cs > 0}
        kept == FilterSeq([i \in 1..Len(productList) |-> i], eligible)
    IN  [k \in 1..Len(kept) |->
            [base |-> productList[kept[k]].b,
             mcap |-> productList[kept[k]].c * productList[kept[k]].cs]]

\* A rank map in which a later entry of the same base asset overwrites.
BuildRankMapLastWins(productList) ==
    LET mcapList == McapList(productList)
        sorted == SortDescBy(mcapList, [i \in 1..Len(mcapList) |-> mcapList[i].mcap])
    IN  [b \in {sorted[i].base : i \in 1..Len(sorted)} |->
            CHOOSE i \in 1..Len(sorted) :
                /\ sorted[i].base = b
                /\ \A j \in 1..Len(sorted) : sorted[j].base = b => j <= i]

BuildRankMap(productList) ==
    LET mcapList == McapList(productList)
        sorted == SortDescBy(mcapList, [i \in 1..Len(mcapList) |-> mcapList[i].mcap])
    IN  [b \in {sorted[i].base : i \in 1..Len(sorted)} |->
            CHOOSE i \in 1..Len(sorted) :
                /\ sorted[i].base = b
                /\ \A j \in 1..Len(sorted) : sorted[j].base = b => i <= j]

\* symbol.replace('USDT', ''): the symbol name is its base asset and the quote.
StripQuote(symbol) == BaseOf(symbol)

\* A resolution without the fallback to the unprefixed name.
ResolveRankNoFallback(symbol, bm, rm) ==
    LET base == IF symbol \in DOMAIN bm THEN bm[symbol] ELSE StripQuote(symbol)
    IN  IF base \in DOMAIN rm THEN Some(rm[base]) ELSE None

ResolveRank(symbol, bm, rm) ==
    LET base == IF symbol \in DOMAIN bm THEN bm[symbol] ELSE StripQuote(symbol)
        r == IF base \in DOMAIN rm THEN Some(rm[base]) ELSE None
    IN  IF r = None /\ Len(base) > 0 /\ base[1] = "1000"
        THEN (IF Tail(base) \in DOMAIN rm THEN Some(rm[Tail(base)]) ELSE None)
        ELSE r


\* --------------------------------------------------------------- the pool
\* A pool is the part of the cycle state the workers share:
\* [index, completed, results, workers, claimed, kRequests, progress].

\* A cursor that a claim leaves where it was.
CursorStuck(idx) == idx

\* `index++`: the cursor after a claim.
AdvanceCursor(idx) == idx + 1

\* A loop that stops one symbol early.
CursorOpenShort(idx, tot) == idx + 1 < tot

\* `while (index < total)`.
CursorOpen(idx, tot) == idx < tot

\* fetchKlines(symbol, interval) called by worker w at time t: the cached
\* series is served, or a request is issued.
CallFetchKlines(pool, w, stage, symbol, interval, cache, t) ==
    LET key == <<symbol, interval>>
        hit == KlinesCacheValid(cache, key, t)
    IN  [pool EXCEPT
            !.workers[w].pc = stage,
            !.workers[w].symbol = symbol,
            !.workers[w].hit = hit,
            !.workers[w].data = IF hit THEN cache[key][1].data ELSE <<>>,
            !.workers[w].callNow = t,
            !.kRequests[key] = IF hit THEN @ ELSE @ + 1]

\* The head of worker w's loop: claim the next symbol and start its
\* evaluation, or terminate.
WorkerLoop(pool, w, target, cache, t) ==
    IF CursorOpen(pool.index, Len(target))
    THEN LET currentIndex == pool.index
             symbol == target[currentIndex + 1]
             claimedPool == [pool EXCEPT
                                !.index = AdvanceCursor(pool.index),
                                !.workers[w].currentIndex = currentIndex,
                                !.workers[w].rsi1h = None,
                                !.claimed[currentIndex + 1] = @ + 1]
         IN  CallFetchKlines(claimedPool, w, "stageA", symbol, "1h", cache, t)
    ELSE [pool EXCEPT !.workers[w] = DoneWorker]

\* Array(n).fill(null).map(() => worker()): the workers start one after the
\* other, each running to its first await.
RECURSIVE StartWorkers(_, _, _, _, _)

\* A pool that starts a single worker whatever the concurrency.
StartWorkersOne(pool, n, target, cache, t) ==
    IF n = 0 THEN pool ELSE WorkerLoop(pool, 1, target, cache, t)

StartWorkers(pool, n, target, cache, t) ==
    IF n = 0 THEN pool
    ELSE WorkerLoop(StartWorkers(pool, n - 1, target, cache, t), n, target, cache, t)


\* A progress test without `|| completed === total`.
ProgressDueOnTens(done, tot) == done % ProgressEvery = 0

\* `completed % 10 === 0 || completed === total`.
ProgressDue(done, tot) == done % ProgressEvery = 0 \/ done = tot

\* The worker after `await processSymbol(symbol)`: result is None or Some(row).
AfterProcessSymbol(pool, w, result, target, cache, t) ==
    LET pushed == IF result # None
                  THEN [pool EXCEPT !.results = Append(@, result[1])]
                  ELSE pool
        counted == [pushed EXCEPT !.completed = @ + 1]
        shown == IF ProgressDue(counted.completed, Len(target))
                 THEN [counted EXCEPT !.progress =
                          [kind |-> "Scanning", a |-> counted.completed, b |-> Len(target)]]
                 ELSE counted
    IN  WorkerLoop(shown, w, target, cache, t)

\* Stage A tested against the threshold of Stage B.
StageAExitAt80(rsi1h) == RatLt(rsi1h, RatInt(StageBThreshold))

\* Stage B leaving at the threshold itself.
StageBExitStrict(rsi4h) == RatLe(rsi4h, RatInt(StageBThreshold))


\* A Stage A that never leaves early.
StageAExitNever(rsi1h) == FALSE

\* `if (rsi1h < 90) return null`.
StageAExit(rsi1h) == RatLt(rsi1h, RatInt(StageAThreshold))

\* `if (rsi4h < 80) return null`.
StageBExit(rsi4h) == RatLt(rsi4h, RatInt(StageBThreshold))

\* The ScanResult of a symbol that passed both stages.
ScanResult(symbol, rsi1h, rsi4h) ==
    [symbol |-> symbol,
     volume |-> Volume(stats, symbol),
     funding |-> IF symbol \in DOMAIN fundingMap /\ fundingMap[symbol] # 0
                 THEN fundingMap[symbol] ELSE 0,
     interval |-> IF symbol \in DOMAIN fundingIntervals /\ fundingIntervals[symbol] # 0
                  THEN fundingIntervals[symbol] ELSE DefaultFundingInterval,
     rank |-> ResolveRank(symbol, baseMap, rankMap),
     rsi1h |-> rsi1h,
     rsi4h |-> rsi4h]


\* A processSymbol that asks again when a series comes back empty.
ProcessSymbolRetry(pool, w, closes, cache, t) ==
    LET me == pool.workers[w]
        rsi == calculateRSI(closes, RsiPeriod)
    IN  IF closes = <<>>
        THEN CallFetchKlines(pool, w, me.pc, me.symbol,
                             IF me.pc = "stageA" THEN "1h" ELSE "4h", cache, t)
        ELSE IF me.pc = "stageA"
        THEN IF StageAExit(rsi)
             THEN AfterProcessSymbol(pool, w, None, TARGET_SYMBOLS, cache, t)
             ELSE CallFetchKlines([pool EXCEPT !.workers[w].rsi1h = Some(rsi)],
                                  w, "stageB", me.symbol, "4h", cache, t)
        ELSE IF StageBExit(rsi)
             THEN AfterProcessSymbol(pool, w, None, TARGET_SYMBOLS, cache, t)
             ELSE AfterProcessSymbol(pool, w,
                                     Some(ScanResult(me.symbol, me.rsi1h[1], rsi)),
                                     TARGET_SYMBOLS, cache, t)

\* processSymbol resumed by worker w with the close series of its pending
\* fetchKlines call, up to the worker's next await.
ProcessSymbolResume(pool, w, closes, cache, t) ==
    LET me == pool.workers[w]
        rsi == calculateRSI(closes, RsiPeriod)
    IN  IF me.pc = "stageA"
        THEN IF StageAExit(rsi)
             THEN AfterProcessSymbol(pool, w, None, TARGET_SYMBOLS, cache, t)
             ELSE CallFetchKlines([pool EXCEPT !.workers[w].rsi1h = Some(rsi)],
                                  w, "stageB", me.symbol, "4h", cache, t)
        ELSE IF StageBExit(rsi)
             THEN AfterProcessSymbol(pool, w, None, TARGET_SYMBOLS, cache, t)
             ELSE AfterProcessSymbol(pool, w,
                                     Some(ScanResult(me.symbol, me.rsi1h[1], rsi)),
                                     TARGET_SYMBOLS, cache, t)

ThePool ==
    [index |-> index, completed |-> completed, results |-> results,
     workers |-> workers, claimed |-> claimed, kRequests |-> kRequests,
     progress |-> totalPairsText]

\* The verdicts of the two stages, as the thresholds read: at least 90, at
\* least 80.
Verdict(rsi, threshold) == IF RatLe(RatInt(threshold), rsi) THEN "pass" ELSE "below"

\* ------------------------------------------------------------- updateData
NoText == [kind |-> "", a |-> 0, b |-> 0]

\* A loading state that is never reset.
setLoadingOn(isLoading) == TRUE

\* A catch block that raises no notice.
CatchSilent(n) == n

\* Promise.race in place of Promise.all: one returned worker is enough.
AnyWorkerSettled(ws) == \E w \in Workers : ws[w].pc = "done"

\* The comparator turned round: lowest volume first.
SortMatchesAscending(matches) ==
    SortDescBy(matches, [i \in 1..Len(matches) |-> 0 - matches[i].volume])


\* A setLoading that leaves the refresh button enabled.
setLoadingOff(isLoading) == FALSE

\* setLoading(isLoading): the value of ELEMENTS.refreshBtn.disabled.
setLoading(isLoading) == isLoading

\* The catch block: one alert().
CatchBlock(n) == n + 1

\* productList.forEach(...) throws a TypeError on a value that is no array.
ForEachThrows(productList) == ~productList.isArray

\* Promise.all(workers) is fulfilled: every started worker has returned.
WorkersSettled(ws) == \A w \in Workers : ws[w].pc \in {"idle", "done"}


\* A comparator that reads the funding rate.
SortMatchesByFunding(matches) ==
    SortDescBy(matches, [i \in 1..Len(matches) |-> matches[i].funding])

\* matches.sort((a, b) => b.volume - a.volume).
SortMatches(matches) ==
    SortDescBy(matches, [i \in 1..Len(matches) |-> matches[i].volume])

MetadataNames == {"pairs", "stats", "fundingRates", "fundingIntervals", "products"}

\* The metadata fetches whose request failed.
FailedFetches(ex, tk, fr, fi, pr, call) ==
    {f \in MetadataNames :
        \/ f = "pairs" /\ ~ex.ok
        \/ f = "stats" /\ ~tk.ok
        \/ f = "fundingRates" /\ ~fr.ok
        \/ f = "fundingIntervals" /\ ~fi.ok
        \/ f = "products" /\ ~call.hit /\ ~pr.ok}

NoWorkers == [w \in Workers |-> IdleWorker]

NoClaims == [i \in Universe |-> 0]

NoRequests == [k \in Keys |-> 0]

NoVerdicts == [s \in Universe |-> "none"]

\* The closure of a cycle that has fetched nothing yet.
EmptyCycle ==
    /\ stats = <<>> /\ fundingMap = <<>> /\ fundingIntervals = <<>>
    /\ baseMap = <<>> /\ rankMap = <<>>
    /\ TARGET_SYMBOLS = <<>> /\ index = 0 /\ completed = 0 /\ results = <<>>
    /\ workers = NoWorkers /\ claimed = NoClaims /\ kRequests = NoRequests
    /\ stageA = NoVerdicts /\ stageB = NoVerdicts /\ thrown = {} /\ failed = {}

\* A new invocation of updateData: a fresh closure.
NewCycle ==
    /\ stats' = <<>> /\ fundingMap' = <<>> /\ fundingIntervals' = <<>>
    /\ baseMap' = <<>> /\ rankMap' = <<>>
    /\ TARGET_SYMBOLS' = <<>> /\ index' = 0 /\ completed' = 0 /\ results' = <<>>
    /\ workers' = NoWorkers /\ claimed' = NoClaims /\ kRequests' = NoRequests
    /\ stageA' = NoVerdicts /\ stageB' = NoVerdicts /\ thrown' = {} /\ failed' = {}

\* The five metadata fetches are issued; fetchProductData reads its cache.
IssueMetadata ==
    /\ pc' = "FetchingMetadata"
    /\ phases' = <<"FetchingMetadata">>
    /\ productCall' = [hit |-> ProductCacheValid(cacheProducts, now), now |-> now]

\* The finally block up to `await wakeLock.release()`.
FinallyBlock ==
    /\ loading' = setLoading(FALSE)
    /\ releasing' = IF wakeLock # None THEN Append(releasing, wakeLock[1]) ELSE releasing
    /\ UNCHANGED <<wakeLock, held>>
    /\ pc' = "Idle"

Init ==
    /\ now = 0
    /\ market = 0
    /\ hasWakeLock \in BOOLEAN
    /\ concurrency \in 1..MaxConcurrency
    /\ wakeLock = None /\ held = {} /\ releasing = <<>>
    /\ loading = FALSE /\ tableBody = <<>> /\ totalPairsText = NoText /\ alerts = 0
    /\ cacheKlines = [k \in Keys |-> None]
    /\ cacheProducts = [data |-> EmptyObject, timestamp |-> 0]
    /\ pc = "Idle" /\ phases = <<>>
    /\ productCall = [hit |-> FALSE, now |-> 0]
    /\ metaFailed = {}
    /\ minVol = minVolume /\ stalled = None
    /\ sample = [closes |-> <<>>, period |-> RsiPeriod] /\ reading = None
    /\ EmptyCycle

\* updateData() is called (page load, or a click on the refresh button, which
\* fires only while the button is enabled) and runs to its first await.
StartCycle ==
    /\ ~loading
    /\ loading' = setLoading(TRUE)
    /\ tableBody' = <<>>
    /\ alerts' = 0
    /\ metaFailed' = {}
    /\ NewCycle
    /\ totalPairsText' = totalPairsText
    /\ IF hasWakeLock
       THEN pc' = "WakeLock" /\ phases' = <<>> /\ UNCHANGED productCall
       ELSE IssueMetadata
    /\ UNCHANGED <<envVars, lockVars, cacheKlines, cacheProducts>>

\* navigator.wakeLock.request('screen') settles.
WakeLockSettle(granted) ==
    /\ pc = "WakeLock"
    /\ IF granted
       THEN LET sentinel == CHOOSE n \in 1..(Cardinality(held) + 1) : n \notin held
            IN  wakeLock' = Some(sentinel) /\ held' = held \cup {sentinel}
       ELSE UNCHANGED <<wakeLock, held>>
    /\ IssueMetadata
    /\ UNCHANGED <<envVars, releasing, uiVars, cacheKlines, cacheProducts,
                   metaFailed, cycleVars>>

\* The five metadata promises have settled and updateData runs on: filtering,
\* ranking and the start of the workers; or the catch and finally blocks.
MetadataSettle(ex, tk, fr, fi, pr) ==
    /\ pc = "FetchingMetadata"
    /\ LET exchangeData == fetchExchangeInfo(ex)
           st == fetch24hTicker(tk)
           product == fetchProductDataSettle(productCall, cacheProducts, pr)
           symbols == exchangeData.symbols
           highVolumeSymbols == SortByChange(HighVolumeSymbols(symbols, st), st)
           scanned == [kind |-> "Scanned", a |-> Len(highVolumeSymbols), b |-> Len(symbols)]
           pool0 == [index |-> 0, completed |-> 0, results |-> <<>>,
                     workers |-> NoWorkers, claimed |-> NoClaims,
                     kRequests |-> NoRequests, progress |-> scanned]
           pool == StartWorkers(pool0, Min(concurrency, Len(highVolumeSymbols)),
                                highVolumeSymbols, cacheKlines, now)
       IN  /\ cacheProducts' = product.cache
           /\ metaFailed' = FailedFetches(ex, tk, fr, fi, pr, productCall)
           /\ stats' = st
           /\ fundingMap' = fetchFundingRates(fr)
           /\ fundingIntervals' = fetchFundingIntervals(fi)
           /\ baseMap' = exchangeData.baseMap
           /\ TARGET_SYMBOLS' = highVolumeSymbols
           /\ IF ForEachThrows(product.value)
              THEN /\ alerts' = CatchBlock(alerts)
                   /\ phases' = phases \o <<"Filtering", "Done">>
                   /\ totalPairsText' = scanned
                   /\ FinallyBlock
                   /\ UNCHANGED <<rankMap, index, completed, results, workers,
                                  claimed, kRequests, tableBody>>
              ELSE /\ rankMap' = BuildRankMap(product.value.items)
                   /\ index' = pool.index
                   /\ completed' = pool.completed
                   /\ results' = pool.results
                   /\ workers' = pool.workers
                   /\ claimed' = pool.claimed
                   /\ kRequests' = pool.kRequests
                   /\ totalPairsText' = pool.progress
                   /\ pc' = "Scanning"
                   /\ phases' = phases \o <<"Filtering", "Scanning">>
                   /\ UNCHANGED <<lockVars, loading, alerts, tableBody>>
    /\ UNCHANGED <<envVars, cacheKlines, productCall, stageA, stageB, thrown, failed>>

\* A catch block that ends the worker.
CatchReturns(pool, w, target, cache, t) == [pool EXCEPT !.workers[w] = DoneWorker]

\* The catch block of the worker: the symbol is skipped and the worker goes
\* on to `completed++` and the next turn of its loop.
AfterCatch(pool, w, target, cache, t) ==
    AfterProcessSymbol(pool, w, None, target, cache, t)

\* Worker w resumes with the close series its fetchKlines call returned and
\* runs to its next await, or to its end.  With `fault`, processSymbol throws
\* once fetchKlines has returned.
ResumeWorker(w, closes, cache, fault) ==
    LET me == workers[w]
        rsi == calculateRSI(closes, RsiPeriod)
        pool == IF fault
                THEN AfterCatch(ThePool, w, TARGET_SYMBOLS, cache, now)
                ELSE ProcessSymbolResume(ThePool, w, closes, cache, now)
    IN  /\ cacheKlines' = cache
        /\ index' = pool.index
        /\ completed' = pool.completed
        /\ results' = pool.results
        /\ workers' = pool.workers
        /\ claimed' = pool.claimed
        /\ kRequests' = pool.kRequests
        /\ totalPairsText' = pool.progress
        /\ stageA' = IF me.pc = "stageA" /\ ~fault
                     THEN [stageA EXCEPT ![me.symbol] = Verdict(rsi, StageAThreshold)]
                     ELSE stageA
        /\ stageB' = IF me.pc = "stageB" /\ ~fault
                     THEN [stageB EXCEPT ![me.symbol] = Verdict(rsi, StageBThreshold)]
                     ELSE stageB
        /\ thrown' = IF fault THEN thrown \cup {me.symbol} ELSE thrown
        /\ UNCHANGED <<envVars, lockVars, loading, tableBody, alerts, cacheProducts,
                       pc, phases, productCall, metaFailed, stats, fundingMap,
                       fundingIntervals, baseMap, rankMap, TARGET_SYMBOLS>>

IntervalOf(stage) == IF stage = "stageA" THEN "1h" ELSE "4h"


\* A catch that falls back to the entry the cache still holds.
KlinesCatchStale(cache, key) ==
    [value |-> IF cache[key] # None THEN cache[key][1].data ELSE <<>>, cache |-> cache]

\* fetchKlines' catch: `return []`, with CACHE.klines as it was.
KlinesCatch(cache, key) == [value |-> <<>>, cache |-> cache]

\* The klines request of worker w settles: fetchKlines stores and returns the
\* closes, or returns [] when the request failed.
KlinesSettle(w, resp, fault) ==
    /\ workers[w].pc \in {"stageA", "stageB"}
    /\ ~workers[w].hit
    /\ LET me == workers[w]
           key == <<me.symbol, IntervalOf(me.pc)>>
       IN  IF resp.ok
           THEN LET closePrices == ClosePrices(resp.body)
                IN  ResumeWorker(w, closePrices,
                        [cacheKlines EXCEPT ![key] =
                            Some([data |-> closePrices, timestamp |-> me.callNow])],
                        fault)
           ELSE LET caught == KlinesCatch(cacheKlines, key)
                IN  ResumeWorker(w, caught.value, caught.cache, fault)
    /\ failed' = IF resp.ok THEN failed
                 ELSE failed \cup {<<workers[w].symbol, IntervalOf(workers[w].pc)>>}

\* fetchKlines served worker w from the cache; the worker resumes.
KlinesServed(w, fault) ==
    /\ workers[w].pc \in {"stageA", "stageB"}
    /\ workers[w].hit
    /\ ResumeWorker(w, workers[w].data, cacheKlines, fault)
    /\ UNCHANGED failed

\* Promise.all(workers) is fulfilled: sort, render and the finally block.
Aggregate ==
    /\ pc = "Scanning"
    /\ WorkersSettled(workers)
    /\ results' = SortMatches(results)
    /\ tableBody' = results'
    /\ phases' = phases \o <<"Aggregating", "Done">>
    /\ FinallyBlock
    /\ UNCHANGED <<envVars, totalPairsText, alerts, cacheKlines, cacheProducts,
                   productCall, metaFailed, stats, fundingMap, fundingIntervals,
                   baseMap, rankMap, TARGET_SYMBOLS, index, completed, workers,
                   claimed, kRequests, stageA, stageB, thrown, failed>>

\* A pending wakeLock.release() settles; fulfilled, the finally block goes on
\* to `wakeLock = null`.
ReleaseSettle(i, fulfilled) ==
    /\ i \in 1..Len(releasing)
    /\ releasing' = [k \in 1..(Len(releasing) - 1) |->
                        IF k < i THEN releasing[k] ELSE releasing[k + 1]]
    /\ IF fulfilled
       THEN wakeLock' = None /\ held' = held \ {releasing[i]}
       ELSE UNCHANGED <<wakeLock, held>>
    /\ UNCHANGED <<envVars, uiVars, cacheKlines, cacheProducts, pc, phases,
                   productCall, metaFailed, cycleVars>>

\* ------------------------------------------------------- specifications
Outcomes(body) == {Response(body), Failure}

TickerOutcomes == {Response(r) : r \in TickerResponses} \cup {Failure}

KlinesOutcomes(interval) == {Response(r) : r \in KlinesResponses(interval)} \cup {Failure}

\* The call of updateData() at page load.
FirstCall == phases = <<>> /\ StartCycle

WakeLockSettles == \E granted \in BOOLEAN : WakeLockSettle(granted)

\* The metadata of a page load: the pairs, the ticker and the product feed
\* may each fail; the funding endpoints answer.
MetadataSettles ==
    \E ex \in Outcomes(ExchangeInfoResponse), tk \in TickerOutcomes,
       pr \in Outcomes(ProductsResponse) :
        MetadataSettle(ex, tk, Response(PremiumIndexResponse),
                       Response(FundingInfoResponse), pr)

WorkerSettles ==
    \E w \in Workers :
        \E resp \in KlinesOutcomes(IntervalOf(workers[w].pc)) : KlinesSettle(w, resp, FALSE)

Released == \E i \in 1..Len(releasing) : ReleaseSettle(i, TRUE)

\* A page load: the process from its construction through the scan cycle that
\* the initial updateData() call starts.  The candle cache is empty when the
\* cycle starts and a cycle asks for each key once, so no call is served from
\* the cache.
Next ==
    \/ FirstCall
    \/ WakeLockSettles
    \/ MetadataSettles
    \/ WorkerSettles
    \/ Aggregate
    \/ Released

Spec == Init /\ [][Next]_vars

\* Every promise the cycle awaits settles: the steps that resume updateData or
\* a worker are taken when they stay possible.
Settles == WakeLockSettles \/ MetadataSettles \/ WorkerSettles \/ Aggregate \/ Released

SpecLive == Init /\ [][Next]_vars /\ WF_vars(Settles)

\* A deterministic data client: the candles of a key are a fixed function of
\* the dataset and the key, the metadata is the same in every cycle.  The
\* dataset gives every symbol one of four profiles.
Datasets == 0..3

DatasetKlines(m, s, interval) ==
    LET profile == (s + m) % 4
    IN  CASE profile = 0 -> IF interval = "1h" THEN Response(Candles(Exact90))
                            ELSE Response(Candles(Exact80))
          [] profile = 1 -> IF interval = "1h" THEN Response(Candles(Exact80))
                            ELSE Response(Candles(Exact80))
          [] profile = 2 -> IF interval = "1h" THEN Response(Candles(Exact90))
                            ELSE Response(Candles(Weak))
          [] OTHER -> IF interval = "1h" THEN Failure
                      ELSE Response(Candles(Exact80))

InitDataset ==
    /\ now = 0
    /\ market \in Datasets
    /\ hasWakeLock \in BOOLEAN
    /\ concurrency \in 1..MaxConcurrency
    /\ wakeLock = None /\ held = {} /\ releasing = <<>>
    /\ loading = FALSE /\ tableBody = <<>> /\ totalPairsText = NoText /\ alerts = 0
    /\ cacheKlines = [k \in Keys |-> None]
    /\ cacheProducts = [data |-> EmptyObject, timestamp |-> 0]
    /\ pc = "Idle" /\ phases = <<>>
    /\ productCall = [hit |-> FALSE, now |-> 0]
    /\ metaFailed = {}
    /\ minVol = minVolume /\ stalled = None
    /\ sample = [closes |-> <<>>, period |-> RsiPeriod] /\ reading = None
    /\ EmptyCycle

\* updateData() is called once the previous cleanup is over.
Refresh == releasing = <<>> /\ StartCycle

DatasetMetadataSettles ==
    MetadataSettle(Response(ExchangeInfoResponse),
                   Response(CHOOSE r \in TickerResponses : Len(r) = NumSymbols),
                   Response(PremiumIndexResponse), Response(FundingInfoResponse),
                   Response(ProductsResponse))

DatasetWorkerSettles ==
    \E w \in Workers :
        KlinesSettle(w, DatasetKlines(market, workers[w].symbol, IntervalOf(workers[w].pc)),
                     FALSE)

WorkerServed == \E w \in Workers : KlinesServed(w, FALSE)

NextDataset ==
    \/ Refresh
    \/ WakeLockSettles
    \/ DatasetMetadataSettles
    \/ DatasetWorkerSettles
    \/ WorkerServed
    \/ Aggregate
    \/ Released

SpecDataset == InitDataset /\ [][NextDataset]_vars

\* A page load served by the deterministic data client, in which processSymbol
\* may throw after a fetchKlines call returned.
WorkerThrows ==
    \E w \in Workers :
        KlinesSettle(w, DatasetKlines(market, workers[w].symbol, IntervalOf(workers[w].pc)),
                     TRUE)

NextFault ==
    \/ FirstCall
    \/ WakeLockSettles
    \/ DatasetMetadataSettles
    \/ DatasetWorkerSettles
    \/ WorkerThrows
    \/ Aggregate
    \/ Released

SpecFault == InitDataset /\ [][NextFault]_vars

\* Date.now() has advanced to t.
Tick(t) ==
    /\ t > now
    /\ now' = t
    /\ UNCHANGED <<hasWakeLock, concurrency, market, minVol, stalled, sample, reading,
                   lockVars,
                   uiVars, cacheKlines,
                   cacheProducts, pc, phases, productCall, metaFailed, cycleVars>>

\* The instants at which the clock is read: around the age of one candle TTL,
\* measured from a call at 0 and from a call one millisecond before the TTL.
KlinesInstants == {cacheTTL - 1, cacheTTL, 2 * cacheTTL - 1}

KlinesClock == \E t \in KlinesInstants : Tick(t)

\* Scan cycles one after the other against the deterministic data client, in
\* a browser without the Wake Lock API, while the clock advances, between and
\* during the calls.
NextCache ==
    \/ Refresh
    \/ DatasetMetadataSettles
    \/ DatasetWorkerSettles
    \/ WorkerServed
    \/ Aggregate
    \/ KlinesClock

\* A browser without the Wake Lock API.
InitCache == InitDataset /\ ~hasWakeLock

\* The dataset in which a symbol passes both stages.
InitKlinesCache == InitCache /\ market = 3

SpecCache == InitKlinesCache /\ [][NextCache]_vars

\* The instants around the age of one rank TTL, measured from a call at 0.
RankInstants == {rankCacheTTL - 1, rankCacheTTL}

RankClock == \E t \in RankInstants : Tick(t)

\* The product feed answers with its list, with an empty list, with a refusal,
\* or not at all; the other metadata is that of the deterministic client.
ProductOutcomes ==
    {Response(ProductsResponse), Response(ProductsEmpty), Response(ProductsRefused), Failure}

ProductMetadataSettles ==
    \E pr \in ProductOutcomes :
        MetadataSettle(Response(ExchangeInfoResponse),
                       Response(CHOOSE r \in TickerResponses : Len(r) = NumSymbols),
                       Response(PremiumIndexResponse), Response(FundingInfoResponse),
                       pr)

\* Scan cycles one after the other, up to an hour apart, in which only the
\* product feed varies.
NextProducts ==
    \/ Refresh
    \/ ProductMetadataSettles
    \/ DatasetWorkerSettles
    \/ WorkerServed
    \/ Aggregate
    \/ RankClock

SpecProducts == InitCache /\ [][NextProducts]_vars

\* calculateRSI called directly: close series of up to MaxCloses prices in
\* 1..MaxClose, with the period the scan uses and with a short one, under
\* which the smoothing loop runs several times.
CloseSeries == UNION {[1..n -> 1..MaxClose] : n \in 0..MaxCloses}

Periods == {2, RsiPeriod}

InitRSI ==
    /\ now = 0
    /\ market = 0
    /\ hasWakeLock = FALSE
    /\ concurrency = 1
    /\ wakeLock = None /\ held = {} /\ releasing = <<>>
    /\ loading = FALSE /\ tableBody = <<>> /\ totalPairsText = NoText /\ alerts = 0
    /\ cacheKlines = [k \in Keys |-> None]
    /\ cacheProducts = [data |-> EmptyObject, timestamp |-> 0]
    /\ pc = "Idle" /\ phases = <<>>
    /\ productCall = [hit |-> FALSE, now |-> 0]
    /\ metaFailed = {}
    /\ minVol = minVolume /\ stalled = None
    /\ sample \in [closes : CloseSeries, period : Periods]
    /\ reading = None
    /\ EmptyCycle

\* The call returns.
Evaluate ==
    /\ reading = None
    /\ reading' = Some(calculateRSI(sample.closes, sample.period))
    /\ UNCHANGED <<now, hasWakeLock, concurrency, market, minVol, stalled, sample,
                   lockVars, uiVars,
                   cacheKlines, cacheProducts, pc, phases, productCall, metaFailed,
                   cycleVars>>

SpecRSI == InitRSI /\ [][Evaluate]_vars

\* Entries the product feed may list: two of one base asset with different
\* market caps, one that ties with the lower of them, a leveraged name, and
\* entries left out for their quote, their price or their supply.
FeedEntries ==
    { [b |-> <<"BTC">>, q |-> "USDT", c |-> 100, cs |-> 5],
      [b |-> <<"BTC">>, q |-> "USDT", c |-> 10, cs |-> 5],
      [b |-> <<"PEPE">>, q |-> "USDT", c |-> 1, cs |-> 50],
      [b |-> <<"1000", "PEPE">>, q |-> "USDT", c |-> 2, cs |-> 10],
      [b |-> <<"BTC">>, q |-> "BUSD", c |-> 100, cs |-> 50],
      [b |-> <<"ETH">>, q |-> "USDT", c |-> 0, cs |-> 10],
      [b |-> <<"ETH">>, q |-> "USDT", c |-> 10, cs |-> 0] }

\* The feeds of up to MaxFeed different entries, in any order.
Feeds ==
    {f \in UNION {[1..n -> FeedEntries] : n \in 0..MaxFeed} :
        \A i, j \in 1..Len(f) : i # j => f[i] # f[j]}

RankMetadataSettles ==
    /\ pc = "FetchingMetadata"
    /\ \E feed \in Feeds :
        MetadataSettle(Response(ExchangeInfoResponse),
                       Response(CHOOSE r \in TickerResponses : Len(r) = NumSymbols),
                       Response(PremiumIndexResponse), Response(FundingInfoResponse),
                       Response([success |-> TRUE, data |-> feed]))

\* A page load against the deterministic data client, whose product feed is
\* any of the feeds; the pool has one worker.
InitRank == InitCache /\ concurrency = 1

NextRank ==
    \/ FirstCall
    \/ RankMetadataSettles
    \/ DatasetWorkerSettles
    \/ Aggregate

SpecRank == InitRank /\ [][NextRank]_vars

\* The floors CONFIG.minVolume is set to: the shipped one, and one that some
\* ticker volumes equal and others miss.
Floors == {minVolume, 20}

InitFloor ==
    /\ now = 0
    /\ market \in Datasets
    /\ hasWakeLock = FALSE
    /\ concurrency \in 1..MaxConcurrency
    /\ wakeLock = None /\ held = {} /\ releasing = <<>>
    /\ loading = FALSE /\ tableBody = <<>> /\ totalPairsText = NoText /\ alerts = 0
    /\ cacheKlines = [k \in Keys |-> None]
    /\ cacheProducts = [data |-> EmptyObject, timestamp |-> 0]
    /\ pc = "Idle" /\ phases = <<>>
    /\ productCall = [hit |-> FALSE, now |-> 0]
    /\ metaFailed = {}
    /\ minVol \in Floors /\ stalled = None
    /\ sample = [closes |-> <<>>, period |-> RsiPeriod] /\ reading = None
    /\ EmptyCycle

\* The ticker answers with either of its responses or fails; the other
\* metadata is that of the deterministic client.
FloorMetadataSettles ==
    \E tk \in TickerOutcomes :
        MetadataSettle(Response(ExchangeInfoResponse), tk,
                       Response(PremiumIndexResponse), Response(FundingInfoResponse),
                       Response(ProductsResponse))

\* A page load under a configured volume floor.
NextFloor ==
    \/ FirstCall
    \/ FloorMetadataSettles
    \/ DatasetWorkerSettles
    \/ Aggregate

SpecFloor == InitFloor /\ [][NextFloor]_vars

\* The premiumIndex endpoint answers with rates that grow with the symbol,
\* with rates that fall with it, or not at all; fundingInfo answers or fails.
PremiumIndexOutcomes ==
    {Response(PremiumIndexResponse),
     Response([i \in 1..NumSymbols |-> [symbol |-> i, lastFundingRate |-> 2 - i]]),
     Failure}

FundingMetadataSettles ==
    \E fr \in PremiumIndexOutcomes, fi \in Outcomes(FundingInfoResponse) :
        MetadataSettle(Response(ExchangeInfoResponse),
                       Response(CHOOSE r \in TickerResponses : Len(r) = NumSymbols),
                       fr, fi, Response(ProductsResponse))

InitFunding == InitCache /\ market = 0

\* A page load on fixed pairs and ticker stats, with any candle data and any
\* funding data.
NextFunding ==
    \/ FirstCall
    \/ FundingMetadataSettles
    \/ WorkerSettles
    \/ Aggregate

SpecFunding == InitFunding /\ [][NextFunding]_vars

\* A click on the refresh button, as soon as it is enabled.  The sentinels
\* held and the releases pending at a click are capped, to keep the page's
\* history finite.
Click ==
    /\ Cardinality(held) < MaxHeld
    /\ Len(releasing) < MaxHeld
    /\ StartCycle

InitClicks == InitDataset /\ market = 3

\* Scan cycles started by clicks at any moment the button allows, against the
\* deterministic data client; every release() is fulfilled.
NextClicks ==
    \/ Click
    \/ WakeLockSettles
    \/ DatasetMetadataSettles
    \/ DatasetWorkerSettles
    \/ WorkerServed
    \/ Aggregate
    \/ Released

SpecClicks == InitClicks /\ [][NextClicks]_vars

\* A candle request fails.
RequestFails == \E w \in Workers : KlinesSettle(w, Failure, FALSE)

InitOutage == InitCache /\ market = 3 /\ concurrency = 1

\* The clock passes the age of one candle TTL.
OutageClock == Tick(cacheTTL)

\* Scan cycles of one worker, one after the other while the clock advances, in
\* which any candle request may fail and the others are served by the
\* deterministic client.
NextOutage ==
    \/ Refresh
    \/ DatasetMetadataSettles
    \/ DatasetWorkerSettles
    \/ RequestFails
    \/ WorkerServed
    \/ Aggregate
    \/ OutageClock

SpecOutage == InitOutage /\ [][NextOutage]_vars

\* A page load in which the candle request of one key never settles.
InitStall ==
    /\ now = 0
    /\ market = 3
    /\ hasWakeLock = FALSE
    /\ concurrency \in 1..MaxConcurrency
    /\ wakeLock = None /\ held = {} /\ releasing = <<>>
    /\ loading = FALSE /\ tableBody = <<>> /\ totalPairsText = NoText /\ alerts = 0
    /\ cacheKlines = [k \in Keys |-> None]
    /\ cacheProducts = [data |-> EmptyObject, timestamp |-> 0]
    /\ pc = "Idle" /\ phases = <<>>
    /\ productCall = [hit |-> FALSE, now |-> 0]
    /\ metaFailed = {}
    /\ minVol = minVolume
    /\ stalled \in {Some(k) : k \in Symbols \X Intervals}
    /\ sample = [closes |-> <<>>, period |-> RsiPeriod] /\ reading = None
    /\ EmptyCycle

\* The request of a worker that is not waiting for the stalled key settles,
\* with its candles or with a failure.
OtherWorkerSettles ==
    \E w \in Workers :
        /\ workers[w].pc \in {"stageA", "stageB"}
        /\ Some(<<workers[w].symbol, IntervalOf(workers[w].pc)>>) # stalled
        /\ \E resp \in {Failure,
                         DatasetKlines(market, workers[w].symbol, IntervalOf(workers[w].pc))} :
              KlinesSettle(w, resp, FALSE)

NextStall ==
    \/ FirstCall
    \/ DatasetMetadataSettles
    \/ OtherWorkerSettles
    \/ Aggregate

\* Every candle request but the stalled one settles.
SpecStall == InitStall /\ [][NextStall]_vars /\ WF_vars(OtherWorkerSettles)

\* An exchange that lists MaxSymbols pairs, more than one progress interval,
\* with a ticker entry for each.
WideExchangeInfoResponse ==
    [i \in 1..MaxSymbols |->
        [symbol |-> i, baseAsset |-> BaseOf(i), quoteAsset |-> "USDT", status |-> "TRADING"]]

WideTickerResponse ==
    [i \in 1..MaxSymbols |->
        [symbol |-> i, lastPrice |-> 100 + i, quoteVolume |-> 10 * i, priceChangePercent |-> i]]

WideMetadataSettles ==
    \E ex \in Outcomes(WideExchangeInfoResponse) :
        MetadataSettle(ex, Response(WideTickerResponse),
                       Response(PremiumIndexResponse), Response(FundingInfoResponse),
                       Response(ProductsResponse))

InitWide == InitFloor /\ market = 3

\* A page load on the wide exchange, served by the deterministic data client,
\* with the floor at 0 or just above the smallest volume.
NextWide ==
    \/ FirstCall
    \/ WideMetadataSettles
    \/ DatasetWorkerSettles
    \/ Aggregate

SpecWide == InitWide /\ [][NextWide]_vars

\* ------------------------------------------------------------------ claims
Stages == {"stageA", "stageB"}

\* The cycle has sorted and rendered its results.
Aggregated == "Aggregating" \in Range(phases)

\* The cycle has run its finally block.
CycleOver == phases # <<>> /\ phases[Len(phases)] = "Done"

InFlight == {w \in Workers : workers[w].pc \in Stages}

RenderedSymbols == {tableBody[i].symbol : i \in 1..Len(tableBody)}

\* C1: in a cycle every position of the candidate list is claimed from the
\* cursor by exactly one worker: the positions below the cursor once, the
\* others not yet, no two workers hold the same position, and at the end every
\* candidate was claimed once and the results name no symbol twice.
C1_EachSymbolClaimedOnce ==
    /\ \A i \in Symbols : claimed[i] = (IF i <= index THEN 1 ELSE 0)
    /\ index <= total
    /\ \A v, w \in InFlight : v # w => workers[v].currentIndex # workers[w].currentIndex
    /\ \A w \in InFlight : workers[w].symbol = TARGET_SYMBOLS[workers[w].currentIndex + 1]
    /\ Aggregated => \A i \in 1..total : claimed[i] = 1
    /\ \A i, j \in 1..Len(results) : i # j => results[i].symbol # results[j].symbol

C1_Witness ==
    /\ Aggregated
    /\ total = NumSymbols
    /\ concurrency = MaxConcurrency
    /\ Len(tableBody) >= 2

\* C2: for a symbol whose 1h RSI is below 90 no 4h candle request is issued
\* in the cycle, and no 4h RSI is computed.
C2_NoStageBBelowThreshold ==
    \A s \in Symbols :
        stageA[s] = "below" => kRequests[<<s, "4h">>] = 0 /\ stageB[s] = "none"

C2_Witness ==
    /\ \E s \in Symbols : stageA[s] = "below" /\ kRequests[<<s, "1h">>] = 1
    /\ \E s \in Symbols : stageA[s] = "pass" /\ kRequests[<<s, "4h">>] = 1

\* C3: when the cycle completes, the rendered list holds exactly the
\* candidates whose 1h RSI is at least 90 and whose 4h RSI is at least 80, each
\* once, with these two readings in its row.
C3_ExactlyTheQualifying ==
    Aggregated =>
        /\ RenderedSymbols = {s \in Range(TARGET_SYMBOLS) :
                                 stageA[s] = "pass" /\ stageB[s] = "pass"}
        /\ Len(tableBody) = Cardinality(RenderedSymbols)
        /\ \A i \in 1..Len(tableBody) :
              /\ RatLe(RatInt(StageAThreshold), tableBody[i].rsi1h)
              /\ RatLe(RatInt(StageBThreshold), tableBody[i].rsi4h)

C3_Witness ==
    /\ Aggregated
    /\ \E a, b, c \in Range(TARGET_SYMBOLS) :
          /\ stageA[a] = "pass" /\ stageB[a] = "pass" /\ a \in RenderedSymbols
          /\ stageA[b] = "below" /\ b \notin RenderedSymbols
          /\ stageA[c] = "pass" /\ stageB[c] = "below" /\ c \notin RenderedSymbols

\* C4: the list handed to renderTable is ordered by volume, highest first.
C4_SortedByVolume ==
    Aggregated =>
        \A i, j \in 1..Len(tableBody) :
            i < j => tableBody[i].volume >= tableBody[j].volume

C4_Witness ==
    /\ Aggregated
    /\ Len(tableBody) >= 2
    /\ tableBody[1].volume > tableBody[Len(tableBody)].volume

\* The symbols of a dataset that pass both stages, evaluated one by one.
DatasetMatches(m) ==
    {s \in Symbols :
        LET a == DatasetKlines(m, s, "1h")
            b == DatasetKlines(m, s, "4h")
        IN  /\ a.ok
            /\ RatLe(RatInt(StageAThreshold), calculateRSI(ClosePrices(a.body), RsiPeriod))
            /\ b.ok
            /\ RatLe(RatInt(StageBThreshold), calculateRSI(ClosePrices(b.body), RsiPeriod))}

\* C5: served by a deterministic data client, a cycle ends with the same set
\* of symbols, the one the dataset fixes, whatever the concurrency and the
\* interleaving of the workers.
C5_SameSetAtAnyConcurrency == Aggregated => RenderedSymbols = DatasetMatches(market)

C5_Witness ==
    /\ Aggregated
    /\ concurrency = MaxConcurrency
    /\ concurrency > 1
    /\ RenderedSymbols # {}
    /\ productCall.hit

\* C6: nothing is sorted or rendered while a symbol is still being evaluated:
\* once the cycle aggregates, no worker is in flight, the cursor is exhausted
\* and every candidate is completed; and rows are rendered by aggregation only.
C6_AggregateAfterWorkers ==
    /\ Aggregated => InFlight = {} /\ index = total /\ completed = total
    /\ tableBody # <<>> => Aggregated

C6_Witness ==
    /\ Aggregated
    /\ total = NumSymbols
    /\ tableBody # <<>>

\* C7: when every awaited promise settles, a started cycle (loading shown)
\* reaches Done and is Idle again with the loading state reset.
C7_CycleTerminates == loading ~> (~loading /\ pc = "Idle" /\ CycleOver)

C7_Witness ==
    /\ CycleOver
    /\ Aggregated
    /\ total = 0
    /\ ~loading
    /\ pc = "Idle"

\* C8: a cycle in which metadata fetches failed still runs through scanning
\* and aggregation, and raises no failure notice.
C8_MetadataFailSoft ==
    (CycleOver /\ metaFailed # {}) => (alerts = 0 /\ Aggregated)

\* C9: a throw while a symbol is evaluated stays in the worker: no notice is
\* raised and the cycle goes on, the symbol is counted as completed and is in
\* no result, and at the end every candidate was claimed once and completed.
C9_ThrowStaysInWorker ==
    thrown # {} =>
        /\ alerts = 0
        /\ pc = "Scanning" \/ Aggregated
        /\ completed = index - Cardinality(InFlight)
        /\ \A i \in 1..Len(results) : results[i].symbol \notin thrown
        /\ Aggregated => completed = total /\ \A i \in 1..total : claimed[i] = 1

C9_Witness ==
    /\ Aggregated
    /\ concurrency = 1
    /\ \E i, j \in 1..total :
          /\ i < j
          /\ TARGET_SYMBOLS[i] \in thrown
          /\ TARGET_SYMBOLS[j] \in RenderedSymbols

\* C10: a cycle that ended through the catch block raised exactly one notice,
\* has reset the loading state and is Idle, so that updateData can be called
\* again; and no other cycle raises a notice.
C10_OneNoticeThenIdle ==
    /\ (CycleOver /\ ~Aggregated) => (alerts = 1 /\ ~loading /\ pc = "Idle")
    /\ alerts > 0 => (CycleOver /\ ~Aggregated)

C10_Witness ==
    /\ CycleOver
    /\ ~Aggregated
    /\ alerts = 1
    /\ ~loading

\* The key of the fetchKlines call worker w is suspended in.
KeyOf(w) == <<workers[w].symbol, IntervalOf(workers[w].pc)>>

\* C11: a fetchKlines call made while the cache holds an entry for its key
\* that is less than 60 s old returns the stored series and issues no request.
C11_FreshEntryServed ==
    \A w \in InFlight :
        LET me == workers[w]
            k == KeyOf(w)
        IN  (cacheKlines[k] # None /\ me.callNow - cacheKlines[k][1].timestamp < cacheTTL)
                => /\ me.hit
                   /\ me.data = cacheKlines[k][1].data
                   /\ kRequests[k] = 0

C11_Witness ==
    \E w \in InFlight :
        /\ workers[w].hit
        /\ workers[w].callNow - cacheKlines[KeyOf(w)][1].timestamp = cacheTTL - 1
        /\ workers[w].data # <<>>

\* A call that found no entry, or one at least 60 s old, has issued one request.
C12_StaleIssuesOneRequest ==
    \A w \in InFlight :
        LET me == workers[w]
            k == KeyOf(w)
        IN  (cacheKlines[k] = None \/ me.callNow - cacheKlines[k][1].timestamp >= cacheTTL)
                => ~me.hit /\ kRequests[k] = 1

\* When the request of such a call succeeds, the entry of its key becomes the
\* close of every candle of the response, with the time of the call.
C12_SuccessOverwrites ==
    \A w \in InFlight :
        LET me == workers[w]
            k == KeyOf(w)
            resp == DatasetKlines(market, me.symbol, IntervalOf(me.pc))
        IN  (~me.hit /\ workers'[w] # me /\ resp.ok)
                => cacheKlines'[k] =
                       Some([data |-> [i \in 1..Len(resp.body) |-> resp.body[i][5]],
                             timestamp |-> me.callNow])

\* C12: a fetchKlines call made while the cache holds no entry for its key, or
\* one whose age is 60 s or more (60 s exactly is stale), issues exactly one
\* request, and a successful response overwrites the entry with the whole new
\* series and the timestamp of the call.
C12_StaleEntryRefetched ==
    [] C12_StaleIssuesOneRequest /\ [][C12_SuccessOverwrites]_vars

C12_Witness ==
    \E w \in InFlight :
        LET me == workers[w]
            k == KeyOf(w)
        IN  /\ ~me.hit
            /\ cacheKlines[k] # None
            /\ me.callNow - cacheKlines[k][1].timestamp = cacheTTL
            /\ \E k2 \in Keys :
                  /\ cacheKlines[k2] # None
                  /\ cacheKlines[k2][1].timestamp = me.callNow

\* C13: the product dataset is served from its cache, without a request,
\* exactly when a dataset was stored less than 3600 s before the call; a
\* refetch that succeeds stores the new dataset with the time of the call.
C13_ProductCacheTTL ==
    /\ pc = "FetchingMetadata" =>
          (productCall.hit <=>
              /\ cacheProducts.data.isArray
              /\ productCall.now - cacheProducts.timestamp < rankCacheTTL)
    /\ cacheProducts.data.isArray => cacheProducts.timestamp <= now

\* C14: a symbol whose 1h or 4h candle request failed in the cycle is in no
\* result and no rendered row; the failure reaches the worker as a series too
\* short to qualify, not as an error: the stage reads below its threshold, no
\* processSymbol call rejects and no notice is raised.
C14_FailedFetchNeverQualifies ==
    \A s \in Symbols :
        /\ <<s, "1h">> \in failed =>
              stageA[s] = "below" /\ stageB[s] = "none" /\ kRequests[<<s, "4h">>] = 0
        /\ <<s, "4h">> \in failed => stageA[s] = "pass" /\ stageB[s] = "below"
        /\ (<<s, "1h">> \in failed \/ <<s, "4h">> \in failed) =>
              /\ \A i \in 1..Len(results) : results[i].symbol # s
              /\ s \notin RenderedSymbols
              /\ s \notin thrown
              /\ alerts = 0

C14_Witness ==
    /\ Aggregated
    /\ RenderedSymbols # {}
    /\ \E a, b \in Range(TARGET_SYMBOLS) :
          /\ <<a, "1h">> \in failed
          /\ <<b, "4h">> \in failed
    /\ completed = total

\* C15: calculateRSI returns 0 for every series of fewer than period + 1
\* closes, the empty one included.
C15_ShortSeriesReadZero ==
    (reading # None /\ Len(sample.closes) < sample.period + 1) => reading = Some(RatInt(0))

C15_Witness ==
    /\ reading = Some(RatInt(0))
    /\ Len(sample.closes) = sample.period
    /\ sample.period = RsiPeriod
    /\ \E i \in 1..(Len(sample.closes) - 1) : sample.closes[i] < sample.closes[i + 1]

\* C16: calculateRSI returns exactly 100 for every series of at least
\* period + 1 closes that never falls, a flat one included.
C16_NonDecreasingReadsHundred ==
    (/\ reading # None
     /\ Len(sample.closes) >= sample.period + 1
     /\ \A i \in 1..(Len(sample.closes) - 1) : sample.closes[i] <= sample.closes[i + 1])
        => reading = Some(RatInt(100))

C16_Witness ==
    /\ reading = Some(RatInt(100))
    /\ Len(sample.closes) = MaxCloses
    /\ \A i \in 1..(Len(sample.closes) - 1) : sample.closes[i] = sample.closes[i + 1]

Scanned == "Scanning" \in Range(phases)

\* C18: the rank map has an entry for exactly the base assets of the eligible
\* feed entries (quote USDT, price > 0, supply > 0), and the rank of a base
\* asset is the 1-based position of its highest-cap entry among the eligible
\* entries in descending order of market cap: one more than the number of
\* eligible entries sorted ahead of it.
C18_RankOfHighestCapEntry ==
    LET feed == cacheProducts.data.items
        Eligible == {i \in 1..Len(feed) :
                        feed[i].q = "USDT" /\ feed[i].c > 0 /\ feed[i].cs > 0}
        cap(i) == feed[i].c * feed[i].cs
        Ahead(i) == {j \in Eligible : cap(j) > cap(i) \/ (cap(j) = cap(i) /\ j < i)}
        Best(b) == CHOOSE i \in Eligible :
                      /\ feed[i].b = b
                      /\ \A j \in Eligible : feed[j].b = b => j \notin Ahead(i)
    IN  Scanned =>
            /\ DOMAIN rankMap = {feed[i].b : i \in Eligible}
            /\ \A b \in DOMAIN rankMap : rankMap[b] = 1 + Cardinality(Ahead(Best(b)))

C18_Witness ==
    LET feed == cacheProducts.data.items
    IN  /\ Scanned
        /\ \E i, j, k \in 1..Len(feed) :
              /\ i < j
              /\ feed[i].b = feed[j].b /\ feed[i].q = "USDT" /\ feed[j].q = "USDT"
              /\ 0 < feed[i].c * feed[i].cs
              /\ feed[i].c * feed[i].cs < feed[j].c * feed[j].cs
              /\ i < k
              /\ feed[k].q = "USDT" /\ feed[k].b # feed[i].b
              /\ feed[k].c * feed[k].cs = feed[i].c * feed[i].cs
              /\ rankMap[feed[i].b] = 1
              /\ rankMap[feed[k].b] = 3
        /\ \E k \in 1..Len(feed) : feed[k].q # "USDT"

\* C19: the rank of a result is the rank of its base asset when the rank map
\* has it; else, for a base asset with the prefix 1000, the rank of the name
\* without the prefix when the map has that; else it is unresolved.
C19_RankResolution ==
    \A i \in 1..Len(results) :
        LET base == baseMap[results[i].symbol]
        IN  results[i].rank =
                IF base \in DOMAIN rankMap THEN Some(rankMap[base])
                ELSE IF base[1] = "1000" /\ Tail(base) \in DOMAIN rankMap
                     THEN Some(rankMap[Tail(base)])
                     ELSE None

C19_Witness ==
    /\ Aggregated
    /\ \E i \in 1..Len(tableBody) :
          LET base == baseMap[tableBody[i].symbol]
          IN  /\ base \notin DOMAIN rankMap
              /\ base[1] = "1000"
              /\ Tail(base) \in DOMAIN rankMap
              /\ tableBody[i].rank = Some(rankMap[Tail(base)])
              /\ rankMap[Tail(base)] > 1

\* The worker() invocations of the cycle.
Started == {w \in Workers : workers[w].pc # "idle"}

\* C20: a cycle starts as many workers as the smaller of the configured
\* concurrency and the number of candidates, and at every moment the symbols
\* claimed and not yet completed, one per worker in flight, and the candle
\* requests in flight, are at most that many.
C20_PoolSizeBoundsInFlight ==
    LET size == IF concurrency <= total THEN concurrency ELSE total
    IN  Scanned =>
            /\ Started = 1..size
            /\ index - completed = Cardinality(InFlight)
            /\ index - completed <= size
            /\ Cardinality({w \in InFlight : ~workers[w].hit}) <= size
            /\ \A k \in Keys : kRequests[k] <= 1

C20_Witness ==
    /\ pc = "Scanning"
    /\ concurrency = MaxConcurrency
    /\ total > concurrency
    /\ Cardinality(InFlight) = concurrency
    /\ completed > 0
    /\ \E w \in InFlight : workers[w].pc = "stageB"

\* The active pairs whose 24h volume, 0 without a ticker entry, is at least
\* the configured floor.
AtOrAboveFloor ==
    {s \in DOMAIN baseMap : (IF s \in DOMAIN stats THEN stats[s].volume ELSE 0) >= minVol}

\* C21: the candidate list of a cycle holds, once each, exactly the active
\* pairs whose 24h volume (0 without a ticker entry) is at least the
\* configured floor; no candle request is issued, no verdict reached and no
\* row rendered for any other symbol.
C21_CandidatesAreAtOrAboveFloor ==
    Scanned =>
        /\ Range(TARGET_SYMBOLS) = AtOrAboveFloor
        /\ Len(TARGET_SYMBOLS) = Cardinality(AtOrAboveFloor)
        /\ \A s \in Universe \ AtOrAboveFloor :
              /\ \A interval \in Intervals : kRequests[<<s, interval>>] = 0
              /\ stageA[s] = "none" /\ stageB[s] = "none"
              /\ s \notin RenderedSymbols
              /\ \A w \in Workers : workers[w].pc \in Stages => workers[w].symbol # s

C21_Witness ==
    /\ CycleOver
    /\ Aggregated
    /\ minVol > 0
    /\ \E s \in DOMAIN baseMap : s \notin DOMAIN stats
    /\ \E s \in DOMAIN stats : stats[s].volume < minVol /\ stageA[s] = "none"
    /\ \E s \in DOMAIN stats :
          stats[s].volume = minVol /\ kRequests[<<s, "1h">>] = 1 /\ stageA[s] # "none"

\* The 24h change the pre-sort reads for a symbol: 0 without a ticker entry.
ChangeOf(s) == IF s \in DOMAIN stats THEN stats[s].priceChangePercent ELSE 0

\* Positions of the candidate list, counted from 1.
Positions == 1..Len(TARGET_SYMBOLS)

\* The candidate list is in the order of the pre-sort.
C22_PreSorted ==
    Scanned =>
        \A i, j \in Positions :
            i < j => ChangeOf(TARGET_SYMBOLS[i]) >= ChangeOf(TARGET_SYMBOLS[j])

\* A step that claims position j has every position before j claimed by its
\* end, and the workers one step starts hold positions in their start order.
C22_ClaimedInListOrder ==
    /\ \A j \in 1..Len(TARGET_SYMBOLS') :
          (claimed[j] = 0 /\ claimed'[j] = 1) =>
              /\ \A i \in 1..(j - 1) : claimed'[i] = 1
              /\ \A i \in (j + 1)..Len(TARGET_SYMBOLS') : claimed[i] = 0
    /\ \A v, w \in Workers :
          (/\ v < w
           /\ workers[v].pc = "idle" /\ workers[w].pc = "idle"
           /\ workers'[v].pc \in Stages /\ workers'[w].pc \in Stages) =>
              workers'[v].currentIndex < workers'[w].currentIndex

\* C22: the candidate list is ordered by 24h percent price change, highest
\* first, and the positions are claimed from the cursor in list order: the
\* evaluation of position i starts no later than that of any position j > i,
\* in every interleaving.
C22_ClaimOrderFollowsPreSort == [] C22_PreSorted /\ [][C22_ClaimedInListOrder]_vars

\* A later position has completed while an earlier one is still in flight,
\* in a list the pre-sort had to reorder (the exchange lists the symbols in
\* ascending order).
C22_Witness ==
    /\ pc = "Scanning"
    /\ \E i, j \in Positions :
          /\ i < j
          /\ ChangeOf(TARGET_SYMBOLS[i]) > ChangeOf(TARGET_SYMBOLS[j])
          /\ TARGET_SYMBOLS[i] > TARGET_SYMBOLS[j]
    /\ \E w \in InFlight :
          \E j \in Positions :
              /\ j > workers[w].currentIndex + 1
              /\ claimed[j] = 1
              /\ \A v \in InFlight : workers[v].currentIndex + 1 # j

\* The candle requests the cycle has issued, over all keys.
RECURSIVE SumRequests(_)
SumRequests(keys) ==
    IF keys = {} THEN 0
    ELSE LET k == CHOOSE x \in keys : TRUE
         IN  kRequests[k] + SumRequests(keys \ {k})

PassedStageA == {s \in Range(TARGET_SYMBOLS) : stageA[s] = "pass"}

\* C24: in a cycle no (symbol, interval) is requested twice; a key whose
\* request failed was requested exactly once and the symbol left at that
\* stage; the requests of the cycle number at most the candidates plus the
\* symbols that passed Stage A.
C24_NoRetries ==
    Scanned =>
        /\ \A k \in Keys : kRequests[k] <= 1
        /\ \A k \in failed :
              /\ kRequests[k] = 1
              /\ k[2] = "1h" => stageA[k[1]] = "below" /\ kRequests[<<k[1], "4h">>] = 0
              /\ k[2] = "4h" => stageB[k[1]] = "below"
        /\ SumRequests(Keys) <= total + Cardinality(PassedStageA)

C24_Witness ==
    /\ Aggregated
    /\ \E k \in failed : k[2] = "1h"
    /\ \E k \in failed : k[2] = "4h"
    /\ PassedStageA # {}
    /\ SumRequests(Keys) = total + Cardinality(PassedStageA)

\* The candidates whose candle data put them at or above both thresholds.
PassedBothStages ==
    {s \in Range(TARGET_SYMBOLS) : stageA[s] = "pass" /\ stageB[s] = "pass"}

\* C26: whatever the funding-rate and funding-interval maps are, the rendered
\* symbols are exactly those the candle data qualify, in the order of their
\* ticker volume; a row carries the rate and interval of its symbol, or rate 0
\* and interval 8 where the map has no entry.
C26_FundingOnlyDisplayed ==
    Aggregated =>
        /\ RenderedSymbols = PassedBothStages
        /\ Len(tableBody) = Cardinality(PassedBothStages)
        /\ \A i, j \in 1..Len(tableBody) :
              i < j => stats[tableBody[i].symbol].volume > stats[tableBody[j].symbol].volume
        /\ \A i \in 1..Len(tableBody) :
              LET s == tableBody[i].symbol
              IN  /\ tableBody[i].funding =
                        (IF s \in DOMAIN fundingMap THEN fundingMap[s] ELSE 0)
                  /\ tableBody[i].interval =
                        (IF s \in DOMAIN fundingIntervals THEN fundingIntervals[s]
                         ELSE DefaultFundingInterval)

\* Rows in an order their funding rates contradict, after the funding
\* intervals failed to load.
C26_Witness ==
    /\ Aggregated
    /\ Len(tableBody) >= 2
    /\ tableBody[1].funding < tableBody[2].funding
    /\ fundingIntervals = <<>>
    /\ tableBody[1].interval = DefaultFundingInterval

\* The earlier, eager updateData: fetchKlines without a cache returns the
\* closes or [], both intervals are fetched for every symbol, and the filter
\* `rsi1h >= 90 && rsi4h >= 80` runs over all the results.
EagerFetchKlines(resp) == IF resp.ok THEN ClosePrices(resp.body) ELSE <<>>

EagerResult(m, symbol) ==
    [symbol |-> symbol,
     rsi1h |-> calculateRSI(EagerFetchKlines(DatasetKlines(m, symbol, "1h")), RsiPeriod),
     rsi4h |-> calculateRSI(EagerFetchKlines(DatasetKlines(m, symbol, "4h")), RsiPeriod)]

EagerMatches(m, symbols) ==
    {s \in symbols :
        LET item == EagerResult(m, s)
        IN  /\ RatLe(RatInt(StageAThreshold), item.rsi1h)
            /\ RatLe(RatInt(StageBThreshold), item.rsi4h)}

\* C27: on the same candle series, the staged evaluation renders the same set
\* of symbols as the eager evaluation, which reads both intervals of every
\* symbol and keeps those with 1h RSI >= 90 and 4h RSI >= 80.
C27_StagedEqualsEager ==
    Aggregated => RenderedSymbols = EagerMatches(market, DOMAIN baseMap)

\* A symbol the eager filter drops on its 1h reading although its 4h reading
\* is high, and whose 4h series the staged evaluation never fetched, next to a
\* symbol both keep.
C27_Witness ==
    /\ Aggregated
    /\ EagerMatches(market, DOMAIN baseMap) # {}
    /\ \E s \in DOMAIN baseMap :
          /\ RatLe(RatInt(StageBThreshold), EagerResult(market, s).rsi4h)
          /\ RatLt(EagerResult(market, s).rsi1h, RatInt(StageAThreshold))
          /\ RatLt(RatInt(0), EagerResult(market, s).rsi1h)
          /\ cacheKlines[<<s, "4h">>] = None
          /\ stageA[s] = "below"

\* The cycle is in its wake-lock, metadata or scanning phase.
Busy == pc # "Idle"

C28_OneCycleBusy ==
    /\ Busy => loading
    /\ Busy => tableBody = <<>>
    /\ ~loading => InFlight = {}
    /\ tableBody # <<>> => tableBody = results

C28_StartsAndEnds ==
    /\ (~loading /\ loading') => (~Busy /\ InFlight = {} /\ tableBody' = <<>>)
    /\ (~Busy /\ Busy') => loading'
    /\ (loading /\ ~loading') => (Busy /\ ~Busy' /\ phases'[Len(phases')] = "Done")

\* C28: the refresh button is disabled in the step that starts a cycle and
\* enabled again only by that cycle's finally block, so a cycle starts only
\* when no other is fetching or scanning: while a cycle is busy the button is
\* disabled and the table empty, no candle request is pending while the button
\* is enabled, and the rows rendered are the results of one cycle.
C28_OneCycleAtATime == [] C28_OneCycleBusy /\ [][C28_StartsAndEnds]_vars

\* A second cycle is scanning while the release of the first cycle's wake
\* lock is still pending.
C28_Witness ==
    /\ pc = "Scanning"
    /\ InFlight # {}
    /\ releasing # <<>>
    /\ loading

\* C29: whenever the system is Idle with no cleanup pending, every wake lock
\* acquired at the start of a cycle has been released.
C29_WakeLocksReleased == (pc = "Idle" /\ releasing = <<>>) => held = {}

\* The verdict of the stage that reads the series of a key.
VerdictOf(k) == IF k[2] = "1h" THEN stageA[k[1]] ELSE stageB[k[1]]

\* A key whose request failed in the cycle read as an empty series, and its
\* cache entry, if any, is the stale one.
C30_FailedReadsEmpty ==
    \A k \in failed :
        /\ VerdictOf(k) = "below"
        /\ cacheKlines[k] # None => now - cacheKlines[k][1].timestamp >= cacheTTL

\* The step in which a request fails changes no cache entry.
C30_FailureKeepsCache == failed' # failed /\ failed' # {} => cacheKlines' = cacheKlines

\* C30: when a candle request fails, fetchKlines returns the empty series and
\* leaves the candle cache as it was: no entry appears for the key, a stale
\* entry keeps its data and timestamp, and the stale data is not what the
\* stage reads.
C30_FailedFetchKeepsCache == [] C30_FailedReadsEmpty /\ [][C30_FailureKeepsCache]_vars

\* A failed request for a key whose stale entry holds a series that would have
\* passed, next to a failed request for a key that has no entry.
C30_Witness ==
    /\ \E k \in failed :
          /\ cacheKlines[k] # None
          /\ RatLe(RatInt(StageAThreshold), calculateRSI(cacheKlines[k][1].data, RsiPeriod))
          /\ k[2] = "1h"
          /\ stageA[k[1]] = "below"
    /\ \E k \in failed : cacheKlines[k] = None

\* The workers whose pending request is the one that never settles.
Blocked ==
    {w \in InFlight : Some(<<workers[w].symbol, IntervalOf(workers[w].pc)>>) = stalled}

\* The symbol has been through processSymbol to a verdict.
Evaluated(s) == stageA[s] # "none" /\ (stageA[s] = "pass" => stageB[s] # "none")

C23_OnlyOneBlocked ==
    /\ Cardinality(Blocked) <= 1
    /\ Blocked # {} => ~Aggregated /\ pc = "Scanning" /\ loading

C23_BlockedStays == \A w \in Blocked : workers'[w] = workers[w]

C23_OthersEvaluated ==
    (Scanned /\ concurrency >= 2 /\ total >= 2)
        ~> (\A s \in Range(TARGET_SYMBOLS) : Some(<<s, "1h">>) # stalled /\ Some(<<s, "4h">>) # stalled
                                              => Evaluated(s))

\* C23: a candle request that never settles blocks the one worker that holds
\* it, which stays where it is, and keeps the cycle from aggregating; with a
\* second worker running, every candidate but the stalled one is eventually
\* claimed and evaluated.
C23_StallBlocksOneWorker ==
    [] C23_OnlyOneBlocked /\ [][C23_BlockedStays]_vars /\ C23_OthersEvaluated

\* One worker is blocked on the stalled request, every other candidate has
\* been evaluated and the other worker has finished; the cycle is still
\* scanning.
C23_Witness ==
    /\ pc = "Scanning"
    /\ Cardinality(Blocked) = 1
    /\ completed = total - 1
    /\ total >= 3
    /\ \E w \in Workers : workers[w].pc = "done"
    /\ \A s \in Range(TARGET_SYMBOLS) :
          (\A w \in Blocked : workers[w].symbol # s) => Evaluated(s)

\* The candidates processSymbol has returned for.
EvaluatedSymbols == {s \in Range(TARGET_SYMBOLS) : Evaluated(s)}

\* The text shows a progress emitted by a worker.
ProgressShown == totalPairsText.kind = "Scanning"

C25_CompletedCounts ==
    Scanned =>
        /\ completed = Cardinality(EvaluatedSymbols)
        /\ completed <= total
        /\ ProgressShown =>
              /\ totalPairsText.b = total
              /\ totalPairsText.a <= completed
              /\ completed - totalPairsText.a < ProgressEvery
              /\ totalPairsText.a % ProgressEvery = 0 \/ totalPairsText.a = total
        /\ (Aggregated /\ total > 0) =>
              totalPairsText = [kind |-> "Scanning", a |-> total, b |-> total]
        /\ total = 0 => ~ProgressShown

C25_ProgressGrows ==
    /\ Scanned => completed' \in {completed, completed + 1}
    /\ Scanned => (completed' = completed + 1 <=> EvaluatedSymbols' # EvaluatedSymbols)
    /\ (ProgressShown /\ totalPairsText' # totalPairsText) =>
          /\ ProgressShown'
          /\ totalPairsText'.a > totalPairsText.a
          /\ totalPairsText'.b = totalPairsText.b

\* C25: during scanning the completed count is the number of symbols
\* evaluated so far, whatever their outcome, and never exceeds the total; a
\* progress text shows (completed, total) as of the last multiple of ten or
\* the total, each emission higher than the one before; once a non-empty
\* cycle aggregates the text shows (total, total).
C25_ProgressCountsEverySymbol == [] C25_CompletedCounts /\ [][C25_ProgressGrows]_vars

\* The first of two emissions: ten of more than ten candidates are completed,
\* among them a match, a non-match and a failed symbol.
C25_Witness ==
    /\ pc = "Scanning"
    /\ total > ProgressEvery
    /\ totalPairsText = [kind |-> "Scanning", a |-> ProgressEvery, b |-> total]
    /\ completed = ProgressEvery
    /\ results # <<>>
    /\ \E k \in failed : Evaluated(k[1])
    /\ \E s \in EvaluatedSymbols : stageA[s] = "pass" /\ stageB[s] = "below"

=============================================================================
